---- MODULE Spec2Model ----
(***************************************************************************)
(* Model of crates/compiler/src/codegen.rs: the CodeWriter that lowers an  *)
(* IR root into the text of a render function.                              *)
(*                                                                         *)
(* The sink is the sequence of byte strings handed to write_all, one entry *)
(* per call.  Every function of the source that returns io::Result<()> is  *)
(* an operator from the CodeWriter to the CodeWriter it leaves and the     *)
(* outcome "Ok", "Err" (the sink rejected a write) or "Panic".             *)
(***************************************************************************)
EXTENDS Integers, Sequences, FiniteSets, TLC

\* ---------------------------------------------------------------- bounds
\* Largest number of expression nodes in the payload of one body node.
MaxExprSize == 3
\* Largest root (body nodes plus expression nodes) given to a fallible sink.
MaxRootSize == 2
\* Largest root given to a generator that is used more than once.
MaxReuseSize == 0
\* A fallible sink accepts between 0 and MaxBudget writes, then rejects.
MaxBudget == 23
\* Calls of generate on one CodeWriter instance.
MaxCalls == 2

\* usize::MAX, kept at 31 bits: the widest unsigned value TLC's integers hold.
UsizeMax == 2147483647

\* A sink that never rejects a write (the Vec<u8> of the test harness).
Unlimited == -1

VARIABLES
    self,              \* the CodeWriter: writer, option, indent_level, closing_brackets
    debug_assertions,  \* build profile: overflow checks and debug_assert! are on
    root,              \* the IR root handed to the last generate call
    result,            \* outcome of the last generate call ("None" before the first)
    pre,               \* indent_level, closing_brackets, bytes written before that call
    calls              \* generate calls made on this instance

vars == <<self, debug_assertions, root, result, pre, calls>>

\* ------------------------------------------------------- IR (converter.rs)
Helpers == {"TO_DISPLAY_STRING", "CREATE_VNODE"}

helper_str(h) ==
    IF h = "TO_DISPLAY_STRING" THEN "toDisplayString" ELSE "createVNode"

HelperNames == {helper_str(h) : h \in Helpers}

Expr(tag, val, list) == [tag |-> tag, val |-> val, list |-> list]

\* The input universes are built as sequences without repetition (products
\* and concatenations) and turned into sets where an action draws from them.
Product(A, B, F(_, _)) ==
    [i \in 1..(Len(A) * Len(B)) |->
        F(A[((i - 1) \div Len(B)) + 1], B[((i - 1) % Len(B)) + 1])]

Map(A, F(_)) == [i \in 1..Len(A) |-> F(A[i])]

RECURSIVE Concat(_, _)
\* Parts(1) \o ... \o Parts(n)
Concat(Parts(_), n) == IF n = 0 THEN <<>> ELSE Concat(Parts, n - 1) \o Parts(n)

ToSet(A) == {A[i] : i \in 1..Len(A)}

Atoms ==
    <<Expr("Src", "foo", <<>>), Expr("StrLit", "hello world", <<>>),
      Expr("Simple", "world", <<>>), Expr("Props", "", <<>>),
      Expr("Symbol", "TO_DISPLAY_STRING", <<>>), Expr("Symbol", "CREATE_VNODE", <<>>)>>

\* The variants that hold a list: Compound, Array, Call of either helper.
Composites(L) ==
    Map(L, LAMBDA l : Expr("Compound", "", l))
    \o Map(L, LAMBDA l : Expr("Array", "", l))
    \o Map(L, LAMBDA l : Expr("Call", "TO_DISPLAY_STRING", l))
    \o Map(L, LAMBDA l : Expr("Call", "CREATE_VNODE", l))

Max(a, b) == IF a >= b THEN a ELSE b

RECURSIVE JsExprsUpTo(_)
\* For each size 0..n (at index size + 1): the JsExpr values with exactly that
\* many nodes, and the lists of JsExpr with that many nodes in all.
JsExprsUpTo(n) ==
    IF n = 0 THEN <<[exprs |-> <<>>, lists |-> << <<>> >>]>>
    ELSE LET prev == JsExprsUpTo(n - 1)
             ex == (IF n = 1 THEN Atoms ELSE <<>>) \o Composites(prev[n].lists)
             ExOf(k) == IF k = n THEN ex ELSE prev[k + 1].exprs
             Part(k) == Product(ExOf(k), prev[n - k + 1].lists, LAMBDA e, l : <<e>> \o l)
         IN Append(prev, [exprs |-> ex, lists |-> Concat(Part, n)])

JsExprsBySize == JsExprsUpTo(Max(MaxExprSize, MaxRootSize))

JsExprs(n) == JsExprsBySize[n + 1]

Node(tag, exprs) == [tag |-> tag, exprs |-> exprs]

Unimplemented == <<"If", "For", "VNodeCall", "RenderSlotCall", "VSlotUse", "CommentCall">>

NoPayload == Map(Unimplemented \o <<"AlterableSlot">>, LAMBDA t : Node(t, <<>>))

TextCalls(n) == Map(JsExprs(n).lists, LAMBDA l : Node("TextCall", l))

GenericExpressions(n) == Map(JsExprs(n).exprs, LAMBDA e : Node("GenericExpression", <<e>>))

\* IRNode values of size n >= 1.  A node without payload has size 1, a
\* TextCall one more than its list, a GenericExpression that of its expression.
IRNodes(n) ==
    (IF n = 1 THEN NoPayload ELSE <<>>) \o TextCalls(n - 1) \o GenericExpressions(n)

IRRoot(body) == [body |-> body]

RECURSIVE BodiesUpTo(_)
\* For each size 0..n (at index size + 1): the bodies (lists of IRNode) of
\* that total size.
BodiesUpTo(n) ==
    IF n = 0 THEN << << <<>> >> >>
    ELSE LET prev == BodiesUpTo(n - 1)
             Part(k) == Product(IRNodes(k), prev[n - k + 1], LAMBDA x, b : <<x>> \o b)
         IN Append(prev, Concat(Part, n))

\* Roots of total size at most n.
RootsUpTo(n) ==
    LET bodies == BodiesUpTo(n)
        Sized(k) == bodies[k]
    IN ToSet(Map(Concat(Sized, n + 1), IRRoot))

\* Roots with at most one body node, that node carrying up to n expression nodes.
SingleRoots(n) ==
    LET Texts(k) == TextCalls(k - 1)
        nodes == NoPayload \o Concat(Texts, n + 1) \o Concat(GenericExpressions, n)
    IN ToSet(<<IRRoot(<<>>)>> \o Map(nodes, LAMBDA x : IRRoot(<<x>>)))

\* ------------------------------------------------------------ the options
CodeGenerateOption(ts, map, file) == [is_ts |-> ts, source_map |-> map, filename |-> file]

DefaultOption == CodeGenerateOption(FALSE, FALSE, "")

Options == {CodeGenerateOption(t, m, f) : t \in BOOLEAN, m \in BOOLEAN, f \in {"", "App.vue"}}

\* ------------------------------------------------------------- the sink
Sink(budget) == [buf |-> <<>>, budget |-> budget, failed |-> FALSE, after |-> FALSE]

CodeWriter(w, opt) ==
    [writer |-> w, option |-> opt, indent_level |-> 0, closing_brackets |-> 0]

Ok(g) == [self |-> g, r |-> "Ok"]
Err(g) == [self |-> g, r |-> "Err"]
Panic(g) == [self |-> g, r |-> "Panic"]

\* The `?` operator: on Ok go on with K, otherwise return at once.
Q(res, K(_)) == IF res.r = "Ok" THEN K(res.self) ELSE res

\* io::Write::write_all on the sink.  `failed` records that the sink rejected
\* a write, `after` that a write was attempted after a rejected one.
write_all(g, bytes) ==
    IF g.writer.failed THEN Err([g EXCEPT !.writer.after = TRUE])
    ELSE IF g.writer.budget = 0 THEN Err([g EXCEPT !.writer.failed = TRUE])
    ELSE Ok([g EXCEPT !.writer.buf = Append(@, bytes),
                      !.writer.budget = IF @ = Unlimited THEN @ ELSE @ - 1])

\* VStr::be_js_str: the text as a quoted string literal.
be_js_str(l) == "\"" \o l \o "\""

\* VStr::write_to
write_to(g, s) == write_all(g, s)

\* ------------------------------------------------- indentation (215-233)
RECURSIVE newline_pad(_, _)
\* the loop of newline: one "  " per indentation level
newline_pad(g, i) ==
    IF i >= g.indent_level THEN Ok(g)
    ELSE Q(write_all(g, "  "), LAMBDA s : newline_pad(s, i + 1))

\* newline without the `?` on its first write
newline_unchecked(g) == newline_pad(write_all(g, "\n").self, 0)

newline(g) == Q(write_all(g, "\n"), LAMBDA s : newline_pad(s, 0))

\* indent_level += 1 on a usize: overflow panics in a debug build and wraps
\* in a release build.
indent(g) ==
    IF g.indent_level = UsizeMax
    THEN IF debug_assertions THEN Panic(g)
         ELSE newline([g EXCEPT !.indent_level = 0])
    ELSE newline([g EXCEPT !.indent_level = @ + 1])

\* indent_level -= 1 on a usize, then the optional newline
deindent(g, with_new_line) ==
    IF g.indent_level = 0 /\ debug_assertions THEN Panic(g)
    ELSE LET s == [g EXCEPT !.indent_level = IF @ = 0 THEN UsizeMax ELSE @ - 1]
         IN IF with_new_line THEN newline(s) ELSE Ok(s)

\* closing_brackets += 1 on a usize
bump_closing_brackets(g) ==
    IF g.closing_brackets = UsizeMax
    THEN IF debug_assertions THEN Panic(g)
         ELSE Ok([g EXCEPT !.closing_brackets = 0])
    ELSE Ok([g EXCEPT !.closing_brackets = @ + 1])

\* ---------------------------------------------------- prologue (74-80, 178-200)
generate_preamble(g) == write_all(g, "return ")

\* a signature that annotates its parameters when is_ts is set
generate_function_signature_ts(g) ==
    Q(write_all(g, IF g.option.is_ts
                   THEN "function render(_ctx: any, _cache: any) {"
                   ELSE "function render(_ctx, _cache) {"),
      LAMBDA s : Q(bump_closing_brackets(s), LAMBDA s2 : indent(s2)))

generate_function_signature(g) ==
    Q(write_all(g, "function render(_ctx, _cache) {"),
      LAMBDA s : Q(bump_closing_brackets(s), LAMBDA s2 : indent(s2)))

\* a with block that opens without counting its bracket
generate_with_block_uncounted(g) ==
    Q(write_all(g, "with (_ctx) {"), LAMBDA s : indent(s))

generate_with_block(g) ==
    Q(write_all(g, "with (_ctx) {"),
      LAMBDA s : Q(bump_closing_brackets(s), LAMBDA s2 : indent(s2)))

generate_assets(g) == Ok(g)

generate_prologue(g, r) ==
    Q(generate_preamble(g),
      LAMBDA s1 : Q(generate_function_signature(s1),
      LAMBDA s2 : Q(generate_with_block(s2),
      LAMBDA s3 : Q(generate_assets(s3),
      LAMBDA s4 : write_all(s4, "return ")))))

\* ---------------------------------------------------------- epilogue (81-88)
RECURSIVE epilogue_loop(_, _, _)
\* for _ in 0..self.closing_brackets: the range is fixed when the loop starts
epilogue_loop(g, i, n) ==
    IF i >= n THEN Ok(g)
    ELSE Q(deindent(g, TRUE),
           LAMBDA s : Q(write_all(s, "}"),
           LAMBDA s2 : epilogue_loop(s2, i + 1, n)))

generate_epilogue(g) ==
    Q(epilogue_loop(g, 0, g.closing_brackets),
      LAMBDA s : IF debug_assertions /\ s.indent_level # 0 THEN Panic(s) ELSE Ok(s))

\* ------------------------------------------------------ expressions (116-147)
RECURSIVE generate_js_expr(_, _)
RECURSIVE compound_loop(_, _)
RECURSIVE comma_loop(_, _)
RECURSIVE gen_comma_separated(_, _)

\* for e in v { self.generate_js_expr(e)?; }
compound_loop(g, v) ==
    IF v = <<>> THEN Ok(g)
    ELSE Q(generate_js_expr(g, Head(v)), LAMBDA s : compound_loop(s, Tail(v)))

\* for e in exprs { write ", "; generate_js_expr(e) }
comma_loop(g, exprs) ==
    IF exprs = <<>> THEN Ok(g)
    ELSE Q(write_all(g, ", "),
           LAMBDA s : Q(generate_js_expr(s, Head(exprs)),
           LAMBDA s2 : comma_loop(s2, Tail(exprs))))

\* a separator before every element, the first included
gen_comma_separated_leading(g, exprs) == comma_loop(g, exprs)

gen_comma_separated(g, exprs) ==
    IF exprs = <<>> THEN Ok(g)
    ELSE Q(generate_js_expr(g, Head(exprs)), LAMBDA s : comma_loop(s, Tail(exprs)))

\* a Call whose callee is written without the helper prefix
generate_js_expr_noprefix(g, expr) ==
    CASE expr.tag = "Src" -> write_all(g, expr.val)
      [] expr.tag = "StrLit" -> write_to(g, be_js_str(expr.val))
      [] expr.tag = "Simple" -> write_to(g, expr.val)
      [] expr.tag = "Symbol" ->
            Q(write_all(g, "_"), LAMBDA s : write_all(s, helper_str(expr.val)))
      [] expr.tag = "Props" -> Panic(g)
      [] expr.tag = "Compound" -> compound_loop(g, expr.list)
      [] expr.tag = "Array" ->
            Q(write_all(g, "["),
              LAMBDA s : Q(gen_comma_separated(s, expr.list),
              LAMBDA s2 : write_all(s2, "]")))
      [] expr.tag = "Call" ->
            Q(write_all(g, helper_str(expr.val)),
              LAMBDA s2 : Q(write_all(s2, "("),
              LAMBDA s3 : Q(gen_comma_separated(s3, expr.list),
              LAMBDA s4 : write_all(s4, ")"))))

generate_js_expr(g, expr) ==
    CASE expr.tag = "Src" -> write_all(g, expr.val)
      [] expr.tag = "StrLit" -> write_to(g, be_js_str(expr.val))
      [] expr.tag = "Simple" -> write_to(g, expr.val)
      [] expr.tag = "Symbol" ->
            Q(write_all(g, "_"), LAMBDA s : write_all(s, helper_str(expr.val)))
      [] expr.tag = "Props" -> Panic(g)
      [] expr.tag = "Compound" -> compound_loop(g, expr.list)
      [] expr.tag = "Array" ->
            Q(write_all(g, "["),
              LAMBDA s : Q(gen_comma_separated(s, expr.list),
              LAMBDA s2 : write_all(s2, "]")))
      [] expr.tag = "Call" ->
            Q(write_all(g, "_"),
              LAMBDA s1 : Q(write_all(s1, helper_str(expr.val)),
              LAMBDA s2 : Q(write_all(s2, "("),
              LAMBDA s3 : Q(gen_comma_separated(s3, expr.list),
              LAMBDA s4 : write_all(s4, ")")))))

\* ------------------------------------------------------------ text (89-100)
RECURSIVE text_loop(_, _)
\* for t in texts { write " + "; generate_js_expr(t) }
text_loop(g, texts) ==
    IF texts = <<>> THEN Ok(g)
    ELSE Q(write_all(g, " + "),
           LAMBDA s : Q(generate_js_expr(s, Head(texts)),
           LAMBDA s2 : text_loop(s2, Tail(texts))))

\* a " + " before every expression, the first included
generate_text_leading(g, t) == text_loop(g, t)

generate_text(g, t) ==
    IF t = <<>> THEN Ok(g)
    ELSE Q(generate_js_expr(g, Head(t)), LAMBDA s : text_loop(s, Tail(t)))

\* ------------------------------------------- unimplemented emitters (101-150)
generate_if(g, i) == Panic(g)
generate_for(g, f) == Panic(g)
generate_vnode(g, v) == Panic(g)
generate_slot_outlet(g, r) == Panic(g)
generate_v_slot(g, s) == Panic(g)
generate_comment(g, c) == Panic(g)

\* ------------------------------------------------------------ root (154-177)
\* the match on one body node, an alterable slot skipped
generate_node_skipping(g, node) ==
    CASE node.tag = "TextCall" -> generate_text(g, node.exprs)
      [] node.tag = "If" -> generate_if(g, node)
      [] node.tag = "For" -> generate_for(g, node)
      [] node.tag = "VNodeCall" -> generate_vnode(g, node)
      [] node.tag = "RenderSlotCall" -> generate_slot_outlet(g, node)
      [] node.tag = "VSlotUse" -> generate_v_slot(g, node)
      [] node.tag = "CommentCall" -> generate_comment(g, node)
      [] node.tag = "GenericExpression" -> generate_js_expr(g, node.exprs[1])
      [] node.tag = "AlterableSlot" -> Ok(g)

\* the match on one body node
generate_node(g, node) ==
    CASE node.tag = "TextCall" -> generate_text(g, node.exprs)
      [] node.tag = "If" -> generate_if(g, node)
      [] node.tag = "For" -> generate_for(g, node)
      [] node.tag = "VNodeCall" -> generate_vnode(g, node)
      [] node.tag = "RenderSlotCall" -> generate_slot_outlet(g, node)
      [] node.tag = "VSlotUse" -> generate_v_slot(g, node)
      [] node.tag = "CommentCall" -> generate_comment(g, node)
      [] node.tag = "GenericExpression" -> generate_js_expr(g, node.exprs[1])
      [] node.tag = "AlterableSlot" -> Panic(g)

RECURSIVE body_loop(_, _)
\* for node in root.body { match node { ... }; }
body_loop(g, body) ==
    IF body = <<>> THEN Ok(g)
    ELSE Q(generate_node(g, Head(body)), LAMBDA s : body_loop(s, Tail(body)))

generate_root(g, r) ==
    Q(generate_prologue(g, r),
      LAMBDA s : Q(IF r.body = <<>> THEN write_all(s, "null") ELSE body_loop(s, r.body),
      LAMBDA s2 : generate_epilogue(s2)))

\* CodeGenerator::generate
generate(g, r) == generate_root(g, r)

\* --------------------------------------------------------- the state machine
\* A CodeWriter as constructed, counters at zero, nothing generated yet.
Constructed(opts) ==
    /\ self \in {CodeWriter(Sink(Unlimited), o) : o \in opts}
    /\ debug_assertions \in BOOLEAN
    /\ root = IRRoot(<<>>)
    /\ result = "None"
    /\ pre = [indent_level |-> 0, closing_brackets |-> 0, len |-> 0]
    /\ calls = 0

\* One call of generate(root) on the instance; the sink accepts `budget` more
\* writes during the call.
Generate(r, budget) ==
    LET g == [self EXCEPT !.writer.budget = budget,
                          !.writer.failed = FALSE,
                          !.writer.after = FALSE]
        res == generate(g, r)
    IN /\ self' = [res.self EXCEPT !.writer.budget = Unlimited]
       /\ result' = res.r
       /\ root' = r
       /\ pre' = [indent_level |-> self.indent_level,
                  closing_brackets |-> self.closing_brackets,
                  len |-> Len(self.writer.buf)]
       /\ calls' = calls + 1
       /\ UNCHANGED debug_assertions

\* A generator over a sink that may reject a write, used once.
Init == Constructed({DefaultOption})

Roots == RootsUpTo(MaxRootSize)

Next ==
    /\ calls = 0
    /\ \E r \in Roots, budget \in 0..MaxBudget : Generate(r, budget)

Spec == Init /\ [][Next]_vars

\* A generator constructed with any options, kept by its caller after a
\* successful call and used again.
InitReuse == Constructed(Options)

ReuseRoots == RootsUpTo(MaxReuseSize)

NextReuse ==
    /\ calls < MaxCalls
    /\ result \in {"None", "Ok"}
    /\ \E r \in ReuseRoots, budget \in 0..MaxBudget : Generate(r, budget)

SpecReuse == InitReuse /\ [][NextReuse]_vars

\* The test harness (base_gen): default options, a Vec<u8> sink, one call.
InitVec == Constructed({DefaultOption})

VecRoots == SingleRoots(MaxExprSize)

NextVec ==
    /\ calls = 0
    /\ \E r \in VecRoots : Generate(r, Unlimited)

SpecVec == InitVec /\ [][NextVec]_vars

\* ------------------------------------------------ vocabulary of the properties
\* The call started on a generator whose counters were zero.
Fresh == pre.indent_level = 0 /\ pre.closing_brackets = 0

\* What the last call wrote to the sink, one entry per write.
Written == SubSeq(self.writer.buf, pre.len + 1, Len(self.writer.buf))

Count(seq, S) == Cardinality({i \in DOMAIN seq : seq[i] \in S})

\* What a fresh generator writes before and after the returned expression.
PrologueText ==
    <<"return ", "function render(_ctx, _cache) {", "\n", "  ",
      "with (_ctx) {", "\n", "  ", "  ", "return ">>

EpilogueText == <<"\n", "  ", "}", "\n", "}">>

\* After a successful call on a fresh generator: the writes between the
\* prologue and the epilogue.
BodyWrites ==
    SubSeq(Written, Len(PrologueText) + 1, Len(Written) - Len(EpilogueText))

Scratch == CodeWriter(Sink(Unlimited), DefaultOption)

\* What generate_js_expr writes for e on its own, and generate_root's match
\* for one node on its own.
Rendering(e) == generate_js_expr(Scratch, e).self.writer.buf

NodeRendering(x) == generate_node(Scratch, x).self.writer.buf

RECURSIVE JoinWith(_, _)
\* The renderings of the expressions of l in order, sep between neighbours.
JoinWith(l, sep) ==
    IF l = <<>> THEN <<>>
    ELSE IF Len(l) = 1 THEN Rendering(l[1])
    ELSE Rendering(l[1]) \o <<sep>> \o JoinWith(Tail(l), sep)

RECURSIVE HelperOrder(_)
\* The helpers named by Symbol and Call nodes of the list l, in document order.
HelperOrder(l) ==
    IF l = <<>> THEN <<>>
    ELSE LET e == Head(l)
         IN (IF e.tag \in {"Symbol", "Call"} THEN <<e.val>> ELSE <<>>)
            \o HelperOrder(e.list) \o HelperOrder(Tail(l))

\* ---------------------------------------------------------------- C1
\* C1: when generate_root succeeds on a generator whose indent_level and
\* closing_brackets were 0, the number of blocks the prologue opened equals
\* the number of closing braces written, and indent_level is 0 again.
C1_Balanced ==
    (calls > 0 /\ Fresh /\ result = "Ok") =>
        /\ Count(Written, {"function render(_ctx, _cache) {", "with (_ctx) {"})
             = Count(Written, {"}"})
        /\ self.indent_level = 0

C1_Witness ==
    /\ calls > 0 /\ Fresh /\ result = "Ok"
    /\ root.body # <<>>
    /\ Count(Written, {"}"}) = 2

\* ---------------------------------------------------------------- C2
\* C2: once the sink has rejected a write, generate_root attempts no further
\* write and returns that failure; it never returns success (nor anything
\* but the I/O error) after a rejected write.
C2_FirstFailureReturned ==
    self.writer.failed => (result = "Err" /\ ~self.writer.after)

\* The sink rejects the write that follows "[" inside a nested generate_js_expr.
C2_Witness ==
    /\ self.writer.failed /\ result = "Err"
    /\ Len(root.body) = 1
    /\ root.body[1].tag = "GenericExpression"
    /\ root.body[1].exprs[1].tag = "Array"
    /\ root.body[1].exprs[1].list # <<>>
    /\ Len(Written) = Len(PrologueText) + 1

\* ---------------------------------------------------------------- C3
\* C3: for a root whose body holds at most one node, not an alterable slot,
\* generate_root on a fresh generator ends in success or in a sink failure,
\* never in a panic.
C3_NeverPanics ==
    (/\ calls > 0 /\ Fresh
     /\ Len(root.body) <= 1
     /\ \A i \in DOMAIN root.body : root.body[i].tag # "AlterableSlot")
    => result # "Panic"

\* ---------------------------------------------------------------- C4
\* the index of the first alterable slot of the body
FirstAlterable ==
    CHOOSE i \in DOMAIN root.body :
        /\ root.body[i].tag = "AlterableSlot"
        /\ \A j \in 1..(i - 1) : root.body[j].tag # "AlterableSlot"

\* the prologue and the nodes before the first alterable slot, on a sink that
\* accepts every write, from the counters the call started with
BeforeAlterable ==
    LET g == [CodeWriter(Sink(Unlimited), self.option)
                EXCEPT !.indent_level = pre.indent_level,
                       !.closing_brackets = pre.closing_brackets]
    IN Q(generate_prologue(g, root),
         LAMBDA s : body_loop(s, SubSeq(root.body, 1, FirstAlterable - 1)))

\* C4: a body with an alterable slot never yields success; when the prologue
\* and the nodes before the slot were emitted, the call panics and the sink
\* holds exactly their bytes: nothing for the slot, no later node, no epilogue.
C4_AlterableSlotAborts ==
    (calls > 0 /\ \E i \in DOMAIN root.body : root.body[i].tag = "AlterableSlot")
    => /\ result # "Ok"
       /\ (BeforeAlterable.r = "Ok" /\ ~self.writer.failed)
            => (result = "Panic" /\ Written = BeforeAlterable.self.writer.buf)

C4_Witness ==
    /\ result = "Panic"
    /\ Len(root.body) = 2
    /\ root.body[1].tag = "GenericExpression"
    /\ root.body[2].tag = "AlterableSlot"
    /\ Len(Written) > Len(PrologueText)

\* ---------------------------------------------------------------- C5
\* C5: for an empty body, on a fresh generator whose sink accepts every write,
\* generate_root succeeds and writes the prologue, `null`, the epilogue; the
\* bytes do not depend on is_ts, source_map or filename.
C5_EmptyRoot ==
    (calls > 0 /\ Fresh /\ root.body = <<>> /\ ~self.writer.failed)
    => /\ result = "Ok"
       /\ Written = PrologueText \o <<"null">> \o EpilogueText

C5_Witness ==
    /\ calls > 0 /\ Fresh /\ root.body = <<>> /\ result = "Ok"
    /\ self.option.is_ts /\ self.option.source_map /\ self.option.filename # ""

\* ---------------------------------------------------------------- C6
\* C6: generate_text on N expressions writes their renderings in order with
\* one " + " between neighbours (N - 1 in all, none for N = 1, none leading
\* or trailing); for N = 0 it writes nothing and succeeds.
C6_TextJoin ==
    (calls > 0 /\ Len(root.body) = 1 /\ root.body[1].tag = "TextCall")
    => LET t == root.body[1].exprs
       IN /\ t = <<>> => result = "Ok"
          /\ result = "Ok" =>
                /\ BodyWrites = JoinWith(t, " + ")
                /\ Count(BodyWrites, {" + "}) = IF t = <<>> THEN 0 ELSE Len(t) - 1

C6_Witness ==
    /\ result = "Ok" /\ Len(root.body) = 1 /\ root.body[1].tag = "TextCall"
    /\ Len(root.body[1].exprs) = 3
    /\ Count(BodyWrites, {" + "}) = 2

\* ---------------------------------------------------------------- C7
\* C7: an Array writes "[", the N renderings with ", " between neighbours,
\* "]"; a Call writes the callee, "(", the same list, ")"; the brackets are
\* there for every N, 0 included, and an empty list writes nothing.
C7_CommaSeparated ==
    (/\ calls > 0 /\ result = "Ok"
     /\ Len(root.body) = 1 /\ root.body[1].tag = "GenericExpression"
     /\ root.body[1].exprs[1].tag \in {"Array", "Call"})
    => LET e == root.body[1].exprs[1]
       IN BodyWrites =
            (IF e.tag = "Array" THEN <<"[">> ELSE <<"_", helper_str(e.val), "(">>)
            \o JoinWith(e.list, ", ")
            \o (IF e.tag = "Array" THEN <<"]">> ELSE <<")">>)

C7_Witness ==
    /\ result = "Ok" /\ Len(root.body) = 1
    /\ root.body[1].tag = "GenericExpression"
    /\ root.body[1].exprs[1].tag = "Call"
    /\ Len(root.body[1].exprs[1].list) = 2
    /\ Count(BodyWrites, {", "}) = 1

\* ---------------------------------------------------------------- C8
\* C8: in the output every helper name is written right after one "_" and
\* every "_" is followed by a helper name; the names are those of the Symbol
\* and Call nodes of the body, in document order, at every nesting depth.
C8_HelperPrefix ==
    (calls > 0 /\ result = "Ok" /\ Len(root.body) = 1)
    => LET w == BodyWrites
       IN /\ \A i \in DOMAIN w :
                w[i] = "_" => (i < Len(w) /\ w[i + 1] \in HelperNames)
          /\ \A i \in DOMAIN w :
                w[i] \in HelperNames => (i > 1 /\ w[i - 1] = "_")
          /\ SelectSeq(w, LAMBDA x : x \in HelperNames)
               = [i \in DOMAIN HelperOrder(root.body[1].exprs)
                    |-> helper_str(HelperOrder(root.body[1].exprs)[i])]

\* a call among the arguments of a call
C8_Witness ==
    /\ result = "Ok" /\ Len(root.body) = 1
    /\ root.body[1].tag = "GenericExpression"
    /\ root.body[1].exprs[1].tag = "Call"
    /\ root.body[1].exprs[1].list # <<>>
    /\ root.body[1].exprs[1].list[1].tag = "Call"
    /\ Count(BodyWrites, {"_"}) >= 2

\* ---------------------------------------------------------------- C9
\* C9: when the body holds more than one node, their renderings are never
\* written one directly after the other with nothing between them.
C9_BodyNodesCombined ==
    (/\ calls > 0 /\ Fresh /\ result = "Ok"
     /\ Len(root.body) > 1
     /\ \A i \in DOMAIN root.body : NodeRendering(root.body[i]) # <<>>)
    => \E i \in 1..(Len(root.body) - 1) :
          LET a == NodeRendering(root.body[i])
              b == NodeRendering(root.body[i + 1])
          IN \A k \in 1..(Len(BodyWrites) - Len(a) - Len(b) + 1) :
                SubSeq(BodyWrites, k, k + Len(a) + Len(b) - 1) # a \o b

\* ---------------------------------------------------------------- C10
\* C10: after a successful generate_root the counters closing_brackets and
\* indent_level are 0 again, as they were before the call.
C10_CountersRestored ==
    (calls > 0 /\ result = "Ok") =>
        /\ self.closing_brackets = 0
        /\ self.indent_level = 0

====
